---- MODULE Spec2Model ----
(***************************************************************************)
(* A model of media_converter.py: the classifier (detect_type), the path   *)
(* allocator (get_unique_file_path, get_unique_output_folder), the         *)
(* same-format copy, the four transcodes, the three drivers                *)
(* (convert_single_file, convert_folder, convert_all_same_type) and main.  *)
(*                                                                         *)
(* Strings whose letter case matters (extensions, typed answers) are       *)
(* sequences of one-character strings, so that str.lower() is a real       *)
(* conversion.  A file name is a record                                    *)
(*   [stem |-> [base |-> "a", sufs |-> <<1>>], ext |-> <<"p","n","g">>]    *)
(* which stands for "a (1).png": sufs lists the " (n)" disambiguators      *)
(* that follow the base name, ext is the suffix without its dot.  A        *)
(* destination path carries its directory in a third field, dir; a         *)
(* directory name is a stem record.                                        *)
(***************************************************************************)
EXTENDS Integers, Sequences, FiniteSets, TLC

VARIABLES
    pc,                    \* position of the control thread in main
    mode,                  \* which driver runs: "none", "single", "same_type", "mixed"
    target,                \* what get_target returned: [kind, files]
    dirs,                  \* the directories that exist next to the sources
    pre_dirs,              \* history: the directories that existed when main started
    out_dir,               \* main's out_dir
    chosen,                \* main's `choice` (second result of get_output_folder)
    retries,               \* number of "Invalid folder" re-prompts in the running loop
    fs,                    \* the paths that exist inside out_dir
    summary,               \* the global summary dict
    correct_format_files,  \* the global list of copied names
    failed_files,          \* the global list of failed names
    skipped_files,         \* the global list of skipped names
    groups,                \* kinds of non_empty still to be processed (in dict order)
    queue,                 \* files of the current group still to be processed
    ftype,                 \* kind of the current group / single file
    choice,                \* answer of choose_conversion_for_video
    dest_ext,              \* answer of choose_extension
    log,                   \* history: one event per copy or transcode call
    intents,               \* history: number of intent selections per kind group
    arg,                   \* input of the pure function under check
    ret                    \* its result

vars == <<pc, mode, target, dirs, pre_dirs, out_dir, chosen, retries, fs, summary,
          correct_format_files, failed_files, skipped_files, groups, queue, ftype,
          choice, dest_ext, log, intents, arg, ret>>

(***************************************************************************)
(* Bounds of the model.                                                    *)
(***************************************************************************)
MaxFiles == 2      \* largest number of files in the target folder
MaxDirs == 2       \* number of "Converted Media[ (n)]" directories that may pre-exist
MaxRetry == 1      \* largest number of invalid output folders typed in a row
MaxSuffix == 2     \* largest " (n)" among the names of the allocator's inputs

(***************************************************************************)
(* Letter case: str.lower().                                               *)
(***************************************************************************)
UpperCase == <<"A","B","C","D","E","F","G","H","I","J","K","L","M",
               "N","O","P","Q","R","S","T","U","V","W","X","Y","Z">>
LowerCase == <<"a","b","c","d","e","f","g","h","i","j","k","l","m",
               "n","o","p","q","r","s","t","u","v","w","x","y","z">>

LowerChar(c) ==
    IF \E i \in 1..Len(UpperCase) : UpperCase[i] = c
    THEN LowerCase[CHOOSE i \in 1..Len(UpperCase) : UpperCase[i] = c]
    ELSE c

UpperChar(c) ==
    IF \E i \in 1..Len(LowerCase) : LowerCase[i] = c
    THEN UpperCase[CHOOSE i \in 1..Len(LowerCase) : LowerCase[i] = c]
    ELSE c

Lower(s) == [i \in 1..Len(s) |-> LowerChar(s[i])]

\* every spelling of s that differs from it only in letter case
CaseVariants(s) ==
    { [i \in 1..Len(s) |-> IF b[i] THEN UpperChar(s[i]) ELSE s[i]] :
        b \in [1..Len(s) -> BOOLEAN] }

(***************************************************************************)
(* The extension tables (without the leading dot).                         *)
(***************************************************************************)
VIDEO_EXTS == { <<"m","p","4">>, <<"m","o","v">>, <<"a","v","i">>,
                <<"m","k","v">>, <<"w","e","b","m">> }
AUDIO_EXTS == { <<"m","p","3">>, <<"w","a","v">>, <<"m","4","a">>,
                <<"f","l","a","c">>, <<"o","g","g">> }
IMAGE_EXTS == { <<"p","n","g">>, <<"j","p","g">>, <<"j","p","e","g">>,
                <<"w","e","b","p">>, <<"b","m","p">>, <<"g","i","f">>,
                <<"t","i","f","f">> }

detect_type_CaseSensitive(file_path) ==
    LET ext == file_path.ext IN
    IF ext \in VIDEO_EXTS THEN "video"
    ELSE IF ext \in AUDIO_EXTS THEN "audio"
    ELSE IF ext \in IMAGE_EXTS THEN "image"
    ELSE "None"

detect_type(file_path) ==
    LET ext == Lower(file_path.ext) IN
    IF ext \in VIDEO_EXTS THEN "video"
    ELSE IF ext \in AUDIO_EXTS THEN "audio"
    ELSE IF ext \in IMAGE_EXTS THEN "image"
    ELSE "None"

(***************************************************************************)
(* The path allocator.  `exists` is the set of paths Path.exists() is true *)
(* of.                                                                     *)
(***************************************************************************)
Stem(base, sufs) == [base |-> base, sufs |-> sufs]

\* dest.parent / f"{dest.stem} ({i}){dest.suffix}"
FileCandidate(dest, i) == [dest EXCEPT !.stem.sufs = Append(@, i)]

\* base_dir.parent / f"{base_dir.name} ({i})"
FolderCandidate(base_dir, i) == [base_dir EXCEPT !.sufs = Append(@, i)]

RECURSIVE FileLoop(_, _, _)
FileLoop(dest, exists, i) ==
    IF FileCandidate(dest, i) \notin exists
    THEN FileCandidate(dest, i)
    ELSE FileLoop(dest, exists, i + 1)

get_unique_file_path_Once(dest, exists) ==
    IF dest \notin exists THEN dest ELSE FileCandidate(dest, 1)

get_unique_file_path(dest, exists) ==
    IF dest \notin exists THEN dest ELSE FileLoop(dest, exists, 1)

RECURSIVE FolderLoop(_, _, _)
FolderLoop(base_dir, exists, i) ==
    IF FolderCandidate(base_dir, i) \notin exists
    THEN FolderCandidate(base_dir, i)
    ELSE FolderLoop(base_dir, exists, i + 1)

get_unique_output_folder_Same(base_dir, exists) == base_dir

get_unique_output_folder(base_dir, exists) ==
    IF base_dir \notin exists THEN base_dir ELSE FolderLoop(base_dir, exists, 1)

(***************************************************************************)
(* The universe the runs are drawn from.                                   *)
(***************************************************************************)
Kinds == <<"video", "audio", "image">>        \* key order of the `types` dict

Mp4 == <<"m","p","4">>
Mov == <<"m","o","v">>
Mp3 == <<"m","p","3">>
Png == <<"p","n","g">>
Jpg == <<"j","p","g">>
Txt == <<"t","x","t">>

\* a source file: its name and whether its clip carries an audio track
SrcFile(base, sufs, ext, audio) ==
    [path |-> [stem |-> Stem(base, sufs), ext |-> ext], audio |-> audio]

Files ==
    { SrcFile("a", <<>>, Mp4, TRUE),
      SrcFile("a", <<>>, <<"M","O","V">>, FALSE),
      SrcFile("a", <<>>, Mp3, TRUE),
      SrcFile("a", <<>>, Png, FALSE),
      SrcFile("a", <<1>>, Png, FALSE),
      SrcFile("notes", <<>>, Txt, FALSE) }

\* the orders iterdir() may list a folder of at most MaxFiles files in
Listings ==
    UNION { { s \in [1..n -> Files] : \A i, j \in 1..n : i # j => s[i] # s[j] } :
            n \in 0..MaxFiles }

\* what the operator may type at an extension prompt
TypedExts == { <<"M","P","4">>, Mov, Mp3, Png, Jpg, Txt }

\* what the operator may type at the "Choose (1/2)" prompt
TypedChoices == { "1", "2", "3" }

ConvertedMedia == Stem("Converted Media", <<>>)
OutGiven == Stem("Out", <<>>)

RECURSIVE Numbered(_, _)
Numbered(base_dir, n) ==
    IF n = 0 THEN {} ELSE { FolderCandidate(base_dir, n) } \cup Numbered(base_dir, n - 1)

\* the default output folders that may exist before the run
DefaultDirs == { ConvertedMedia } \cup Numbered(ConvertedMedia, MaxDirs - 1)

\* what the operator may type at the output folder prompts ("" is Enter)
TypedDirs == { OutGiven, ConvertedMedia, Stem("Missing", <<>>) }

\* what a directory that existed before the run may hold
PreContents(d) ==
    SUBSET { [dir |-> d, stem |-> Stem("a", <<>>), ext |-> Mp4],
             [dir |-> d, stem |-> Stem("a", <<>>), ext |-> Png] }

\* what the codec collaborator may do with one transcode
TranscodeOutcomes == { "ok", "open_error", "write_error_clean", "write_error_partial" }

(***************************************************************************)
(* The module globals and the functions that update them.  g is the record *)
(* of the globals, the file system of out_dir and the history; `raised` is *)
(* TRUE while an exception is in flight.                                   *)
(***************************************************************************)
Globals ==
    [summary |-> summary, correct_format_files |-> correct_format_files,
     failed_files |-> failed_files, skipped_files |-> skipped_files,
     fs |-> fs, log |-> log, raised |-> FALSE]

NameOf(p) == [stem |-> p.stem, ext |-> p.ext]

\* One entry of the history: the call op(src, dest), what the collaborator did (o),
\* whether a write to dest was dispatched, whether dest existed then, whether the
\* call raised, and whether it left a file at dest.
Event(op, src, dest, o, dispatched, existed, raised) ==
    [op |-> op, src |-> src, dest |-> dest, o |-> o, dispatched |-> dispatched,
     existed |-> existed, raised |-> raised,
     wrote |-> dispatched /\ o \in {"none", "ok", "write_error_partial"}]

\* out_dir / f"{src.stem}.{dest_ext}"
DestFor(dir, src, ext) == [dir |-> dir, stem |-> src.path.stem, ext |-> ext]

copy_same_format_CaseSensitive(g, src, dest) ==
    IF src.path.ext = dest.ext
    THEN LET d == IF dest \in g.fs THEN get_unique_file_path(dest, g.fs) ELSE dest
         IN [ret |-> TRUE,
             g |-> [g EXCEPT !.fs = @ \cup {d},
                             !.summary.copied = @ + 1,
                             !.correct_format_files = Append(@, NameOf(d)),
                             !.log = Append(@, Event("copy", src, d, "none", TRUE, d \in g.fs, FALSE))]]
    ELSE [ret |-> FALSE, g |-> g]

copy_same_format(g, src, dest) ==
    IF Lower(src.path.ext) = Lower(dest.ext)
    THEN LET d == IF dest \in g.fs THEN get_unique_file_path(dest, g.fs) ELSE dest
         IN [ret |-> TRUE,
             g |-> [g EXCEPT !.fs = @ \cup {d},
                             !.summary.copied = @ + 1,
                             !.correct_format_files = Append(@, NameOf(d)),
                             !.log = Append(@, Event("copy", src, d, "none", TRUE, d \in g.fs, FALSE))]]
    ELSE [ret |-> FALSE, g |-> g]

\* The write of a transcode (write_videofile, write_audiofile, img.save) and the
\* count that follows it: o says whether the collaborator raises and whether it
\* leaves a partial file behind.
WriteOut(g, op, src, dest, o) ==
    LET e == Event(op, src, dest, o, TRUE, dest \in g.fs, o # "ok") IN
    CASE o = "ok" ->
            [g EXCEPT !.fs = @ \cup {dest}, !.summary.converted = @ + 1,
                      !.log = Append(@, e)]
      [] o = "write_error_partial" ->
            [g EXCEPT !.fs = @ \cup {dest}, !.raised = TRUE, !.log = Append(@, e)]
      [] OTHER ->
            [g EXCEPT !.raised = TRUE, !.log = Append(@, e)]

\* The clip or image cannot be opened: the constructor raises before any write.
OpenFails(g, op, src, dest) ==
    [g EXCEPT !.raised = TRUE,
              !.log = Append(@, Event(op, src, dest, "open_error", FALSE, dest \in g.fs, TRUE))]

convert_video_to_video(g, src, dest, o) ==
    IF o = "open_error" THEN OpenFails(g, "video_to_video", src, dest)
    ELSE WriteOut(g, "video_to_video", src, dest, o)

convert_video_to_audio_NoCheck(g, src, dest, o) ==
    IF o = "open_error" THEN OpenFails(g, "video_to_audio", src, dest)
    ELSE IF ~src.audio
    THEN [g EXCEPT !.raised = TRUE,
                   !.log = Append(@, Event("video_to_audio", src, dest, o, FALSE,
                                           dest \in g.fs, TRUE))]
    ELSE WriteOut(g, "video_to_audio", src, dest, o)

convert_video_to_audio(g, src, dest, o) ==
    IF o = "open_error" THEN OpenFails(g, "video_to_audio", src, dest)
    ELSE IF ~src.audio
    THEN [g EXCEPT !.summary.skipped = @ + 1,
                   !.skipped_files = Append(@, src.path),
                   !.log = Append(@, Event("video_to_audio", src, dest, o, FALSE,
                                           dest \in g.fs, FALSE))]
    ELSE WriteOut(g, "video_to_audio", src, dest, o)

convert_audio_to_audio(g, src, dest, o) ==
    IF o = "open_error" THEN OpenFails(g, "audio_to_audio", src, dest)
    ELSE WriteOut(g, "audio_to_audio", src, dest, o)

convert_image_to_image(g, src, dest, o) ==
    IF o = "open_error" THEN OpenFails(g, "image_to_image", src, dest)
    ELSE WriteOut(g, "image_to_image", src, dest, o)

ConvertOne_NoAlloc(g, kind, ch, ext, dir, src, o) ==
    LET dest == DestFor(dir, src, ext)
        c == copy_same_format(g, src, dest)
    IN IF c.ret THEN c.g
       ELSE CASE kind = "video" /\ ch = "1" -> convert_video_to_video(c.g, src, dest, o)
              [] kind = "video" /\ ch # "1" -> convert_video_to_audio(c.g, src, dest, o)
              [] kind = "audio" -> convert_audio_to_audio(c.g, src, dest, o)
              [] kind = "image" -> convert_image_to_image(c.g, src, dest, o)

\* The body every driver runs for one file once the intent is known:
\*   dest = get_unique_file_path(...); if copy_same_format(f, dest): continue;
\*   convert_<kind>(f, dest)
ConvertOne(g, kind, ch, ext, dir, src, o) ==
    LET dest == get_unique_file_path(DestFor(dir, src, ext), g.fs)
        c == copy_same_format(g, src, dest)
    IN IF c.ret THEN c.g
       ELSE CASE kind = "video" /\ ch = "1" -> convert_video_to_video(c.g, src, dest, o)
              [] kind = "video" /\ ch # "1" -> convert_video_to_audio(c.g, src, dest, o)
              [] kind = "audio" -> convert_audio_to_audio(c.g, src, dest, o)
              [] kind = "image" -> convert_image_to_image(c.g, src, dest, o)

\* except Exception as e: summary["failed"] += 1; failed_files.append(f.name)
Except(g, src) ==
    IF g.raised
    THEN [g EXCEPT !.raised = FALSE, !.summary.failed = @ + 1,
                   !.failed_files = Append(@, src.path)]
    ELSE g

\* convert_folder's loops have no try: the exception leaves convert_folder and main
NoExcept(g, src) == g

Commit(g) ==
    /\ summary' = g.summary
    /\ correct_format_files' = g.correct_format_files
    /\ failed_files' = g.failed_files
    /\ skipped_files' = g.skipped_files
    /\ fs' = g.fs
    /\ log' = g.log

(***************************************************************************)
(* The prompts.                                                            *)
(***************************************************************************)
\* the tuples choose_extension accepts for each kind
ChoosableExts(kind) ==
    CASE kind = "video" -> { <<"m","p","4">>, <<"m","o","v">>, <<"a","v","i">>,
                             <<"m","k","v">>, <<"w","e","b","m">> }
      [] kind = "audio" -> { <<"m","p","3">>, <<"w","a","v">>, <<"m","4","a">>,
                             <<"f","l","a","c">>, <<"o","g","g">> }
      [] kind = "image" -> { <<"p","n","g">>, <<"j","p","g">>, <<"j","p","e","g">>,
                             <<"w","e","b","p">>, <<"b","m","p">>, <<"g","i","f">>,
                             <<"t","i","f","f">> }

\* the prompt that follows the detection of kind k
FirstPrompt(k) == IF k = "video" THEN "choose_conversion" ELSE "choose_extension"

\* choose_conversion_for_video: an invalid answer is asked again
ChooseConversionForVideo ==
    /\ pc = "choose_conversion"
    /\ \E typed \in TypedChoices :
          IF typed \in {"1", "2"}
          THEN /\ choice' = typed
               /\ pc' = "choose_extension"
          ELSE UNCHANGED <<choice, pc>>
    /\ UNCHANGED <<mode, target, dirs, pre_dirs, out_dir, chosen, retries, fs, summary,
                   correct_format_files, failed_files, skipped_files, groups, queue,
                   ftype, dest_ext, log, intents, arg, ret>>

\* choose_extension(ftype), or choose_extension("audio") after answer 2 for a video
ChooseExtension ==
    /\ pc = "choose_extension"
    /\ LET kind == IF ftype = "video" /\ choice # "1" THEN "audio" ELSE ftype IN
       \E typed \in TypedExts :
          IF Lower(typed) \in ChoosableExts(kind)
          THEN /\ dest_ext' = Lower(typed)
               /\ intents' = [intents EXCEPT ![ftype] = @ + 1]
               /\ pc' = "convert"
          ELSE UNCHANGED <<dest_ext, intents, pc>>
    /\ UNCHANGED <<mode, target, dirs, pre_dirs, out_dir, chosen, retries, fs, summary,
                   correct_format_files, failed_files, skipped_files, groups, queue,
                   ftype, choice, log, arg, ret>>

(***************************************************************************)
(* main, up to the dispatch.                                               *)
(***************************************************************************)
\* get_target returns an existing path: a file, a folder, or something else
GetTarget ==
    /\ pc = "get_target"
    /\ \/ \E f \in Files : target' = [kind |-> "file", files |-> <<f>>]
       \/ \E l \in Listings : target' = [kind |-> "dir", files |-> l]
       \/ target' = [kind |-> "other", files |-> <<>>]
    /\ pc' = "get_output_folder"
    /\ UNCHANGED <<mode, dirs, pre_dirs, out_dir, chosen, retries, fs, summary,
                   correct_format_files, failed_files, skipped_files, groups, queue,
                   ftype, choice, dest_ext, log, intents, arg, ret>>

\* get_output_folder, first prompt: Enter gives (default_dir, False)
GetOutputFolder ==
    /\ pc = "get_output_folder"
    /\ \/ /\ out_dir' = ConvertedMedia
          /\ chosen' = FALSE
          /\ pc' = "mkdir"
       \/ \E out \in TypedDirs :
             IF out \in dirs
             THEN /\ out_dir' = out
                  /\ chosen' = TRUE
                  /\ pc' = "mkdir"
             ELSE /\ pc' = "retry_output_folder"
                  /\ UNCHANGED <<out_dir, chosen>>
    /\ UNCHANGED <<mode, target, dirs, pre_dirs, retries, fs, summary,
                   correct_format_files, failed_files, skipped_files, groups, queue,
                   ftype, choice, dest_ext, log, intents, arg, ret>>

\* get_output_folder, the "Invalid folder" loop
RetryOutputFolder ==
    /\ pc = "retry_output_folder"
    /\ \/ /\ out_dir' = ConvertedMedia
          /\ chosen' = FALSE
          /\ pc' = "mkdir"
          /\ retries' = 0
       \/ \E retry \in TypedDirs :
             IF retry \in dirs
             THEN /\ out_dir' = retry
                  /\ chosen' = TRUE
                  /\ pc' = "mkdir"
                  /\ retries' = 0
             ELSE /\ retries < MaxRetry
                  /\ retries' = retries + 1
                  /\ UNCHANGED <<out_dir, chosen, pc>>
    /\ UNCHANGED <<mode, target, dirs, pre_dirs, fs, summary,
                   correct_format_files, failed_files, skipped_files, groups, queue,
                   ftype, choice, dest_ext, log, intents, arg, ret>>

\* if not choice: out_dir = get_unique_output_folder(out_dir)
\* out_dir.mkdir(parents=True, exist_ok=True)
\* Below a target that is no directory the default folder cannot be made: mkdir raises.
MakeOutDir ==
    /\ pc = "mkdir"
    /\ LET d == IF ~chosen THEN get_unique_output_folder(out_dir, dirs) ELSE out_dir IN
       IF target.kind = "other" /\ ~chosen
       THEN /\ pc' = "crashed"
            /\ UNCHANGED <<out_dir, dirs, fs>>
       ELSE /\ out_dir' = d
            /\ dirs' = dirs \cup {d}
            /\ fs' \in (IF d \in dirs THEN PreContents(d) ELSE {{}})
            /\ pc' = "dispatch"
    /\ UNCHANGED <<mode, target, pre_dirs, chosen, retries, summary,
                   correct_format_files, failed_files, skipped_files, groups, queue,
                   ftype, choice, dest_ext, log, intents, arg, ret>>

(***************************************************************************)
(* convert_single_file.                                                    *)
(***************************************************************************)
\* main's target.is_file() branch and the head of convert_single_file:
\* an unsupported file is skipped, a supported one goes to its prompts
SingleDetect ==
    /\ pc = "dispatch"
    /\ target.kind = "file"
    /\ LET src == target.files[1]
           t == detect_type(src.path) IN
       IF t = "None"
       THEN /\ summary' = [summary EXCEPT !.skipped = @ + 1]
            /\ skipped_files' = Append(skipped_files, src.path)
            /\ pc' = "print_summary"
            /\ UNCHANGED <<ftype, queue>>
       ELSE /\ ftype' = t
            /\ queue' = <<src>>
            /\ pc' = FirstPrompt(t)
            /\ UNCHANGED <<summary, skipped_files>>
    /\ mode' = "single"
    /\ UNCHANGED <<target, dirs, pre_dirs, out_dir, chosen, retries, fs,
                   correct_format_files, failed_files, groups, choice, dest_ext,
                   log, intents, arg, ret>>

\* the try block of convert_single_file, after the prompts, and its except clause
convert_single_file(g, kind, ch, ext, dir, src, o) ==
    Except(ConvertOne(g, kind, ch, ext, dir, src, o), src)

SingleConvert ==
    /\ pc = "convert"
    /\ mode = "single"
    /\ \E o \in TranscodeOutcomes :
          Commit(convert_single_file(Globals, ftype, choice, dest_ext, out_dir, Head(queue), o))
    /\ queue' = Tail(queue)
    /\ pc' = "print_summary"
    /\ UNCHANGED <<mode, target, dirs, pre_dirs, out_dir, chosen, retries, groups,
                   ftype, choice, dest_ext, intents, arg, ret>>

(***************************************************************************)
(* convert_folder and convert_all_same_type.                               *)
(***************************************************************************)
\* types[k]: the files of kind k, in listing order
TypesOf(files, k) == SelectSeq(files, LAMBDA f : detect_type(f.path) = k)

Unsupported(files) == SelectSeq(files, LAMBDA f : detect_type(f.path) = "None")

\* the keys of non_empty, in dict order
NonEmpty(files) == SelectSeq(Kinds, LAMBDA k : TypesOf(files, k) # <<>>)

PathsOf(files) == [i \in 1..Len(files) |-> files[i].path]

\* main's target.is_dir() branch and convert_folder up to the choice between the
\* homogeneous and the mixed driver: unsupported files are skipped, the others grouped
FolderPartition ==
    /\ pc = "dispatch"
    /\ target.kind = "dir"
    /\ LET files == target.files
           non_empty == NonEmpty(files) IN
       /\ skipped_files' = skipped_files \o PathsOf(Unsupported(files))
       /\ summary' = [summary EXCEPT !.skipped = @ + Len(Unsupported(files))]
       /\ mode' = IF Len(non_empty) = 1 THEN "same_type" ELSE "mixed"
       /\ groups' = non_empty
       /\ IF non_empty = <<>>
          THEN /\ pc' = "print_summary"
               /\ UNCHANGED <<ftype, queue>>
          ELSE /\ ftype' = Head(non_empty)
               /\ queue' = TypesOf(files, Head(non_empty))
               /\ pc' = FirstPrompt(Head(non_empty))
    /\ UNCHANGED <<target, dirs, pre_dirs, out_dir, chosen, retries, fs,
                   correct_format_files, failed_files, choice, dest_ext,
                   log, intents, arg, ret>>

\* one iteration of a loop of convert_all_same_type: the transcode is in a try
convert_all_same_type(g, kind, ch, ext, dir, src, o) ==
    Except(ConvertOne(g, kind, ch, ext, dir, src, o), src)

SameTypeConvert ==
    /\ pc = "convert"
    /\ mode = "same_type"
    /\ \E o \in TranscodeOutcomes :
          Commit(convert_all_same_type(Globals, ftype, choice, dest_ext, out_dir, Head(queue), o))
    /\ queue' = Tail(queue)
    /\ IF Tail(queue) = <<>>
       THEN /\ groups' = Tail(groups)
            /\ pc' = "print_summary"
       ELSE UNCHANGED <<groups, pc>>
    /\ UNCHANGED <<mode, target, dirs, pre_dirs, out_dir, chosen, retries,
                   ftype, choice, dest_ext, intents, arg, ret>>

\* one iteration of a loop of convert_folder's mixed branch: nothing catches
convert_folder(g, kind, ch, ext, dir, src, o) ==
    NoExcept(ConvertOne(g, kind, ch, ext, dir, src, o), src)

MixedConvert ==
    /\ pc = "convert"
    /\ mode = "mixed"
    /\ \E o \in TranscodeOutcomes :
          LET g == convert_folder(Globals, ftype, choice, dest_ext, out_dir, Head(queue), o) IN
          /\ Commit(g)
          /\ IF g.raised
             THEN /\ pc' = "crashed"
                  /\ UNCHANGED <<queue, groups, ftype>>
             ELSE IF Tail(queue) # <<>>
             THEN /\ queue' = Tail(queue)
                  /\ UNCHANGED <<pc, groups, ftype>>
             ELSE /\ groups' = Tail(groups)
                  /\ IF Tail(groups) = <<>>
                     THEN /\ pc' = "print_summary"
                          /\ queue' = <<>>
                          /\ UNCHANGED ftype
                     ELSE /\ ftype' = Head(Tail(groups))
                          /\ queue' = TypesOf(target.files, Head(Tail(groups)))
                          /\ pc' = FirstPrompt(Head(Tail(groups)))
    /\ UNCHANGED <<mode, target, dirs, pre_dirs, out_dir, chosen, retries,
                   choice, dest_ext, intents, arg, ret>>

\* main's else branch: the target is neither a file nor a folder
NeitherFileNorFolder ==
    /\ pc = "dispatch"
    /\ target.kind = "other"
    /\ summary' = [summary EXCEPT !.failed = @ + 1]
    /\ pc' = "print_summary"
    /\ UNCHANGED <<mode, target, dirs, pre_dirs, out_dir, chosen, retries, fs,
                   correct_format_files, failed_files, skipped_files, groups, queue,
                   ftype, choice, dest_ext, log, intents, arg, ret>>

\* print_summary reads the globals and changes nothing; main returns
PrintSummary ==
    /\ pc = "print_summary"
    /\ pc' = "done"
    /\ UNCHANGED <<mode, target, dirs, pre_dirs, out_dir, chosen, retries, fs, summary,
                   correct_format_files, failed_files, skipped_files, groups, queue,
                   ftype, choice, dest_ext, log, intents, arg, ret>>

(***************************************************************************)
(* The run of main.                                                        *)
(***************************************************************************)
Init ==
    /\ pc = "get_target"
    /\ mode = "none"
    /\ target = [kind |-> "none", files |-> <<>>]
    /\ dirs \in { S \cup {OutGiven} : S \in SUBSET DefaultDirs }
    /\ pre_dirs = dirs
    /\ out_dir = ConvertedMedia
    /\ chosen = FALSE
    /\ retries = 0
    /\ fs = {}
    /\ summary = [converted |-> 0, copied |-> 0, skipped |-> 0, failed |-> 0]
    /\ correct_format_files = <<>>
    /\ failed_files = <<>>
    /\ skipped_files = <<>>
    /\ groups = <<>>
    /\ queue = <<>>
    /\ ftype = "None"
    /\ choice = "None"
    /\ dest_ext = <<>>
    /\ log = <<>>
    /\ intents = [k \in {"video", "audio", "image"} |-> 0]
    /\ arg = "none"
    /\ ret = "none"

Next ==
    \/ GetTarget
    \/ GetOutputFolder
    \/ RetryOutputFolder
    \/ MakeOutDir
    \/ SingleDetect
    \/ ChooseConversionForVideo
    \/ ChooseExtension
    \/ SingleConvert
    \/ FolderPartition
    \/ SameTypeConvert
    \/ MixedConvert
    \/ NeitherFileNorFolder
    \/ PrintSummary

Spec == Init /\ [][Next]_vars

(***************************************************************************)
(* detect_type on its own: the input is any spelling of a known extension  *)
(* or an extension (or none) outside the tables.                           *)
(***************************************************************************)
KnownVideo == { <<"m","p","4">>, <<"m","o","v">>, <<"a","v","i">>, <<"m","k","v">>,
                <<"w","e","b","m">> }
KnownAudio == { <<"m","p","3">>, <<"w","a","v">>, <<"m","4","a">>, <<"f","l","a","c">>,
                <<"o","g","g">> }
KnownImage == { <<"p","n","g">>, <<"j","p","g">>, <<"j","p","e","g">>, <<"w","e","b","p">>,
                <<"b","m","p">>, <<"g","i","f">>, <<"t","i","f","f">> }

OtherExts == { <<>>, <<"t","x","t">>, <<"P","D","F">>, <<"m","p">>, <<"m","p","4","4">>,
               <<"p","y">>, <<"j","p","e">>, <<"T","I","F">> }

ClassifyInputs ==
    { [stem |-> Stem("a", <<>>), ext |-> e] :
        e \in UNION { CaseVariants(k) : k \in KnownVideo \cup KnownAudio \cup KnownImage }
              \cup OtherExts }

Idle ==
    /\ mode = "none"
    /\ target = [kind |-> "none", files |-> <<>>]
    /\ dirs = {OutGiven}
    /\ pre_dirs = dirs
    /\ out_dir = OutGiven
    /\ chosen = TRUE
    /\ retries = 0
    /\ summary = [converted |-> 0, copied |-> 0, skipped |-> 0, failed |-> 0]
    /\ correct_format_files = <<>>
    /\ failed_files = <<>>
    /\ skipped_files = <<>>
    /\ groups = <<>>
    /\ queue = <<>>
    /\ ftype = "None"
    /\ choice = "None"
    /\ dest_ext = <<>>
    /\ log = <<>>
    /\ intents = [k \in {"video", "audio", "image"} |-> 0]

InitClassify ==
    /\ Idle
    /\ pc = "detect_type"
    /\ fs = {}
    /\ arg \in ClassifyInputs
    /\ ret = "none"

Classify ==
    /\ pc = "detect_type"
    /\ ret' = detect_type(arg)
    /\ pc' = "classified"
    /\ UNCHANGED <<mode, target, dirs, pre_dirs, out_dir, chosen, retries, fs, summary,
                   correct_format_files, failed_files, skipped_files, groups, queue,
                   ftype, choice, dest_ext, log, intents, arg>>

NextClassify == Classify

SpecClassify == InitClassify /\ [][NextClassify]_vars

(***************************************************************************)
(* get_unique_file_path on its own: the candidate and the directory's      *)
(* content are drawn from the names "a.png", "a (n).png", "a (1) (1).png"  *)
(* and "a.jpg".                                                            *)
(***************************************************************************)
AllocNames ==
    { [dir |-> OutGiven, stem |-> Stem("a", <<>>), ext |-> Png],
      [dir |-> OutGiven, stem |-> Stem("a", <<1, 1>>), ext |-> Png],
      [dir |-> OutGiven, stem |-> Stem("a", <<>>), ext |-> Jpg] }
    \cup { [dir |-> OutGiven, stem |-> Stem("a", <<n>>), ext |-> Png] : n \in 1..MaxSuffix }

InitAlloc ==
    /\ Idle
    /\ pc = "get_unique_file_path"
    /\ fs \in SUBSET AllocNames
    /\ \E dest \in AllocNames : arg = [dest |-> dest, exists |-> fs]
    /\ ret = "none"

AllocFile ==
    /\ pc = "get_unique_file_path"
    /\ ret' = get_unique_file_path(arg.dest, fs)
    /\ pc' = "allocated"
    /\ UNCHANGED <<mode, target, dirs, pre_dirs, out_dir, chosen, retries, fs, summary,
                   correct_format_files, failed_files, skipped_files, groups, queue,
                   ftype, choice, dest_ext, log, intents, arg>>

NextAlloc == AllocFile

SpecAlloc == InitAlloc /\ [][NextAlloc]_vars

(***************************************************************************)
(* Properties.                                                             *)
(***************************************************************************)
Total == summary.converted + summary.copied + summary.skipped + summary.failed

Elems(seq) == { seq[i] : i \in DOMAIN seq }

\* main has ended: it returned after print_summary, or an exception left it
RunEnded == pc \in {"done", "crashed"}

\* the output directory of the run is settled (main is past its mkdir)
OutDirSettled ==
    \/ pc \in {"dispatch", "choose_conversion", "choose_extension", "convert",
               "print_summary", "done"}
    \/ pc = "crashed" /\ mode = "mixed"

Supported(files) == { files[i] : i \in { j \in DOMAIN files : detect_type(files[j].path) # "None" } }

\* C1: failure isolation in every batch mode.  When a folder run has ended, no
\* exception has left it, every file whose transcode raised is counted Failed and
\* named in the failed list, and every supported file of the folder was attempted.
C1_FailureIsolation ==
    (RunEnded /\ target.kind = "dir") =>
        /\ pc # "crashed"
        /\ \A i \in DOMAIN log : log[i].raised => log[i].src.path \in Elems(failed_files)
        /\ summary.failed = Cardinality({ i \in DOMAIN log : log[i].raised })
        /\ \A f \in Supported(target.files) : \E i \in DOMAIN log : log[i].src = f

\* C2: every examined file produces exactly one outcome.  When a run on a file or
\* a folder has ended, converted + copied + skipped + failed is the number of
\* files examined.
C2_OneOutcomePerFile ==
    (RunEnded /\ target.kind \in {"file", "dir"}) => Total = Len(target.files)

\* C3: collision-free output.  No copy or transcode of the run is dispatched to a
\* path that existed at that moment, and no two files of the run are written to
\* the same path.
C3_CollisionFree ==
    /\ \A i \in DOMAIN log : log[i].dispatched => ~log[i].existed
    /\ \A i, j \in DOMAIN log :
          (i # j /\ log[i].wrote /\ log[j].wrote) => log[i].dest # log[j].dest
    /\ \A i \in DOMAIN log : log[i].wrote => log[i].dest \in fs

\* a run in which a file had to take the disambiguator " (2)"
C3_Witness ==
    /\ pc = "done"
    /\ \E i, j \in DOMAIN log :
          /\ i < j
          /\ log[i].wrote /\ log[j].wrote
          /\ log[j].dest = FileCandidate(DestFor(out_dir, log[j].src, dest_ext), 2)

\* C4: get_unique_file_path never returns an existing path: it returns the
\* candidate when that does not exist, else "<stem> (n)<ext>" in the same
\* directory for the smallest n >= 1 that does not exist; the directory's content
\* is what it was at the call.
C4_UniqueFilePath ==
    (pc = "allocated") =>
        /\ ret \notin fs
        /\ fs = arg.exists
        /\ arg.dest \notin fs => ret = arg.dest
        /\ arg.dest \in fs =>
              \E n \in 1..(Cardinality(fs) + 1) :
                 /\ ret = FileCandidate(arg.dest, n)
                 /\ ret.dir = arg.dest.dir
                 /\ \A m \in 1..(n - 1) : FileCandidate(arg.dest, m) \in fs

\* with "a.png" and "a (1).png" present, the result for "a.png" is "a (2).png"
C4_Witness ==
    /\ pc = "allocated"
    /\ arg.dest = [dir |-> OutGiven, stem |-> Stem("a", <<>>), ext |-> Png]
    /\ fs = { [dir |-> OutGiven, stem |-> Stem("a", <<>>), ext |-> Png],
              [dir |-> OutGiven, stem |-> Stem("a", <<1>>), ext |-> Png] }
    /\ ret = [dir |-> OutGiven, stem |-> Stem("a", <<2>>), ext |-> Png]

\* C5: same-extension short-circuit.  In every mode, a file whose extension equals
\* the target extension up to letter case is copied (the copy exists, the copied
\* count and list have it) and no transcode is called for it; a file whose
\* extension differs is never copied; at the end of a run every supported file has
\* been copied or handed to a transcode.
C5_SameExtensionCopies ==
    /\ \A i \in DOMAIN log :
          IF Lower(log[i].src.path.ext) = Lower(log[i].dest.ext)
          THEN /\ log[i].op = "copy"
               /\ log[i].dest \in fs
               /\ NameOf(log[i].dest) \in Elems(correct_format_files)
          ELSE log[i].op # "copy"
    /\ \A i, j \in DOMAIN log : i # j => log[i].src # log[j].src
    /\ summary.copied = Cardinality({ i \in DOMAIN log : log[i].op = "copy" })
    /\ pc \in {"print_summary", "done"} =>
          \A f \in Supported(target.files) : \E i \in DOMAIN log : log[i].src = f

\* a finished mixed-folder run that copied a file whose extension is spelled in
\* another letter case than the target extension
C5_Witness ==
    /\ pc = "done"
    /\ mode = "mixed"
    /\ \E i \in DOMAIN log :
          /\ log[i].op = "copy"
          /\ log[i].src.path.ext # log[i].dest.ext

\* the call the last history entry records was convert_video_to_audio on a clip
\* that opened and has no audio track
NoAudioCall(e) == e.op = "video_to_audio" /\ ~e.src.audio /\ e.o # "open_error"

\* C6: degenerate no-audio case.  Every step that runs convert_video_to_audio on
\* an opened clip without audio track adds one to the skipped count, appends the
\* source name to the skipped list, leaves the failed and converted counts and
\* the failed list alone, raises nothing and creates no file.
C6_NoAudioIsSkipped ==
    [][ (Len(log') = Len(log) + 1 /\ NoAudioCall(log'[Len(log')])) =>
           /\ summary'.skipped = summary.skipped + 1
           /\ skipped_files' = Append(skipped_files, log'[Len(log')].src.path)
           /\ summary'.failed = summary.failed
           /\ summary'.converted = summary.converted
           /\ failed_files' = failed_files
           /\ pc' # "crashed"
           /\ fs' = fs
           /\ log'[Len(log')].dest \notin fs' ]_vars

\* a video without audio track was sent to audio extraction and is in the skipped list
C6_Witness ==
    \E i \in DOMAIN log :
       /\ NoAudioCall(log[i])
       /\ log[i].src.path \in Elems(skipped_files)

\* the target extensions applied to the files of kind k
ExtsApplied(k) == { log[i].dest.ext : i \in { j \in DOMAIN log : detect_type(log[j].src.path) = k } }

\* C7: intent amortization.  When a folder run has ended, the intent has been
\* selected exactly once for every non-empty kind group and never for an empty
\* one, one target extension was applied to all files of a group, and the summary
\* total is the number of files of the folder.
C7_IntentOncePerGroup ==
    (RunEnded /\ target.kind = "dir") =>
        /\ \A k \in DOMAIN intents :
              intents[k] = (IF TypesOf(target.files, k) # <<>> THEN 1 ELSE 0)
        /\ \A k \in DOMAIN intents : Cardinality(ExtsApplied(k)) <= 1
        /\ Total = Len(target.files)

\* C8: detect_type is a total, case-insensitive function of the extension: video,
\* audio or image for the extensions of the three tables in any letter case, None
\* for every other extension; the three tables are pairwise disjoint.
C8_DetectType ==
    (pc = "classified") =>
        /\ ret \in {"video", "audio", "image", "None"}
        /\ ret = "video" <=> Lower(arg.ext) \in KnownVideo
        /\ ret = "audio" <=> Lower(arg.ext) \in KnownAudio
        /\ ret = "image" <=> Lower(arg.ext) \in KnownImage
        /\ KnownVideo \cap KnownAudio = {}
        /\ KnownVideo \cap KnownImage = {}
        /\ KnownAudio \cap KnownImage = {}
        /\ VIDEO_EXTS = KnownVideo /\ AUDIO_EXTS = KnownAudio /\ IMAGE_EXTS = KnownImage

\* ".JpEg" is classified as an image
C8_Witness ==
    /\ pc = "classified"
    /\ arg.ext = <<"J","p","E","g">>
    /\ ret = "image"

\* C9: the auto-derived output folder is fresh.  Once main is past its mkdir: if
\* the operator gave no valid folder, the folder used did not exist before the
\* run and is "Converted Media", or "Converted Media (n)" for the smallest n >= 1
\* that did not exist; if the operator gave one, it is used as given; every write
\* of the run goes into that folder.
C9_FreshDefaultFolder ==
    OutDirSettled =>
        /\ ~chosen =>
              /\ out_dir \notin pre_dirs
              /\ ConvertedMedia \notin pre_dirs => out_dir = ConvertedMedia
              /\ ConvertedMedia \in pre_dirs =>
                    \E n \in 1..(Cardinality(pre_dirs) + 1) :
                       /\ out_dir = FolderCandidate(ConvertedMedia, n)
                       /\ \A m \in 1..(n - 1) : FolderCandidate(ConvertedMedia, m) \in pre_dirs
        /\ chosen => out_dir \in pre_dirs
        /\ out_dir \in dirs
        /\ \A i \in DOMAIN log : log[i].dest.dir = out_dir

\* "Converted Media" and "Converted Media (1)" existed, the operator pressed Enter
\* and a file was written into "Converted Media (2)"
C9_Witness ==
    /\ pc = "done"
    /\ ~chosen
    /\ {ConvertedMedia, FolderCandidate(ConvertedMedia, 1)} \subseteq pre_dirs
    /\ out_dir = FolderCandidate(ConvertedMedia, 2)
    /\ \E i \in DOMAIN log : log[i].dispatched /\ log[i].dest \in fs

\* C10: counts and itemized lists agree wherever the summary is printed.
C10_CountsMatchLists ==
    (pc = "print_summary") =>
        /\ Len(correct_format_files) = summary.copied
        /\ Len(skipped_files) = summary.skipped
        /\ Len(failed_files) = summary.failed

====
